---- MODULE Spec2Model ----
(***************************************************************************)
(* Model of photo.py: a command-line client that uploads a directory tree  *)
(* to an S3 bucket, downloads a whole bucket, fetches one object or lists  *)
(* a bucket, running one asyncio task per transfer on a single event loop. *)
(*                                                                         *)
(* Strings (paths, object keys) are sequences of one-character strings so  *)
(* that slicing, split and join are computed as Python computes them.      *)
(***************************************************************************)
EXTENDS Integers, Sequences, FiniteSets, TLC

\* ------------------------------------------------------------------------
\* Bounds of the model
\* ------------------------------------------------------------------------
MaxFiles == 3        \* most files in an uploaded tree
MaxObjects == 3      \* most objects in a bucket
MaxConcurrency == 2  \* largest concurrency limit the claims are tried with

\* ------------------------------------------------------------------------
\* String helpers (posixpath)
\* ------------------------------------------------------------------------
SEP == "/"
DOT == "."

startswith(s, c) == Len(s) > 0 /\ s[1] = c
endswith(s, c) == Len(s) > 0 /\ s[Len(s)] = c

\* s[n:]
slice_from(s, n) == SubSeq(s, n + 1, Len(s))

\* str.split("/")
RECURSIVE split(_)
split(s) ==
  IF \A i \in 1..Len(s) : s[i] # SEP
  THEN <<s>>
  ELSE LET k == CHOOSE i \in 1..Len(s) :
                  s[i] = SEP /\ \A j \in 1..(i - 1) : s[j] # SEP
       IN  <<SubSeq(s, 1, k - 1)>> \o split(SubSeq(s, k + 1, Len(s)))

\* "/".join(comps)
RECURSIVE join_sep(_)
join_sep(comps) ==
  IF comps = <<>> THEN <<>>
  ELSE IF Len(comps) = 1 THEN comps[1]
  ELSE comps[1] \o <<SEP>> \o join_sep(Tail(comps))

\* os.path.join(a, b)
join(a, b) ==
  IF startswith(b, SEP) THEN b
  ELSE IF a = <<>> \/ endswith(a, SEP) THEN a \o b
  ELSE a \o <<SEP>> \o b

\* os.path.basename(p): what follows the last "/"
basename(p) == split(p)[Len(split(p))]

\* os.path.normpath of an absolute path: the components kept by the loop
RECURSIVE normcomps(_, _)
normcomps(comps, acc) ==
  IF comps = <<>> THEN acc
  ELSE LET c == Head(comps) IN
       IF c = <<>> \/ c = <<DOT>> THEN normcomps(Tail(comps), acc)
       ELSE IF c = <<DOT, DOT>>
            THEN normcomps(Tail(comps),
                           IF acc = <<>> THEN acc ELSE SubSeq(acc, 1, Len(acc) - 1))
            ELSE normcomps(Tail(comps), Append(acc, c))

\* os.path.abspath(p) for an absolute p
abspath(p) == <<SEP>> \o join_sep(normcomps(split(p), <<>>))

\* The file or directory a relative path names: its non-empty, non-"." components
names(p) == SelectSeq(split(p), LAMBDA c : c # <<>> /\ c # <<DOT>>)

\* ------------------------------------------------------------------------
\* Local filesystem, relative to the working directory: ds is the set of
\* directories, fs the set of regular files, both as component sequences
\* ------------------------------------------------------------------------
parent(r) == SubSeq(r, 1, Len(r) - 1)

isdir_in(p, ds) == names(p) = <<>> \/ names(p) \in ds

\* os.path.exists(p): a regular file does not exist under a trailing "/"
exists(p, ds, fs) ==
  \/ isdir_in(p, ds)
  \/ names(p) \in fs /\ ~endswith(p, SEP)

\* os.mkdir(p) succeeds when p is new and its parent is a directory
mkdir_ok(p, ds, fs) ==
  /\ names(p) # <<>>
  /\ names(p) \notin ds \cup fs
  /\ parent(names(p)) = <<>> \/ parent(names(p)) \in ds

\* open(p, "wb") succeeds when p names no directory and its parent is one
open_wb_ok(p, ds) ==
  /\ ~endswith(p, SEP)
  /\ names(p) # <<>>
  /\ names(p) \notin ds
  /\ parent(names(p)) = <<>> \/ parent(names(p)) \in ds

\* ------------------------------------------------------------------------
\* Inputs: the command line, the uploaded tree, the bucket, the disk
\* ------------------------------------------------------------------------
C_DOWNLOAD == "download"
C_GET == "get"
C_LIST == "list"
C_UPLOAD == "upload"
commands == {C_DOWNLOAD, C_GET, C_LIST, C_UPLOAD}

\* --bucket
bucket == <<"m">>

\* Values of --src tried for upload (absolute paths)
SrcPaths ==
  { <<"/">>, <<"/", "p">>, <<"/", "p", "q">>,
    <<"/", "p", "/", "q">>, <<"/", "p", "/">> }

\* File and directory names of the uploaded tree, in os.listdir order
NameOrder == << <<"a">>, <<"b">> >>
Names == { NameOrder[i] : i \in 1..Len(NameOrder) }

\* A tree is the set of its regular files, each a sequence of names below
\* the root; no name is both a file and a directory
RelFiles == { <<n>> : n \in Names } \cup { <<d, n>> : d \in Names, n \in Names }
IsTree(t) ==
  /\ Cardinality(t) <= MaxFiles
  /\ \A f \in t, g \in t : Len(f) < Len(g) => SubSeq(g, 1, Len(f)) # f
Trees == { t \in SUBSET RelFiles : IsTree(t) }

\* Object keys, in the order the storage lists them
KeyOrder ==
  << <<"/", "x">>,
     <<"x">>,
     <<"y">>,
     <<"y", "/">>,
     <<"y", "/", "/", "z">>,
     <<"y", "/", "w">>,
     <<"y", "/", "z">>,
     <<"y", "/", "z", "/", "w">> >>
Keys == { KeyOrder[i] : i \in 1..Len(KeyOrder) }

\* The keys of a set, as the storage lists them
RECURSIVE listing_from(_, _)
listing_from(ks, i) ==
  IF i > Len(KeyOrder) THEN <<>>
  ELSE (IF KeyOrder[i] \in ks THEN <<KeyOrder[i]>> ELSE <<>>)
       \o listing_from(ks, i + 1)
Buckets == { ks \in SUBSET Keys : Cardinality(ks) <= MaxObjects }

\* The storage returns at most max_keys objects per list_objects response
max_keys == MaxObjects - 1
first_page(objs) == SubSeq(objs, 1, IF Len(objs) < max_keys THEN Len(objs) ELSE max_keys)
page_count(objs) ==
  IF Len(objs) = 0 THEN 1 ELSE (Len(objs) + max_keys - 1) \div max_keys

\* What the working directory holds before the run: directories, files
DiskStates ==
  { [ds |-> {}, fs |-> {}],
    [ds |-> {<<bucket>>}, fs |-> {}],
    [ds |-> {<<bucket>>, <<bucket, <<"y">> >>}, fs |-> {}],
    [ds |-> {<<bucket>>}, fs |-> {<<bucket, <<"y">> >>}],
    [ds |-> {}, fs |-> {<<bucket>>}],
    [ds |-> { << <<"d">> >> }, fs |-> {}] }

\* Values of --src and --dest tried for get
GetKeys == { <<"x">>, <<"y", "/", "z">> }
DestPaths == { <<DOT>>, <<"d">>, <<"d", "/">>, bucket }

\* ------------------------------------------------------------------------
\* State
\* ------------------------------------------------------------------------
VARIABLES
  command,         \* --command
  src,             \* --src
  dest,            \* --dest
  src_isdir,       \* os.path.isdir(src) (upload)
  tree,            \* regular files below src (upload)
  objects,         \* keys of the bucket, in listing order
  dirs,            \* directories of the working directory
  files,           \* regular files of the working directory
  pc,              \* main: "main", "loop", "done", "exit", "crash"
  pool,            \* every task made by ensure_future, in creation order
  tasks,           \* main's list of tasks (indices of pool)
  download_tasks,  \* download_bucket's list of tasks (indices of pool)
  clients,         \* tasks inside "async with session.create_client(...)"
  puts,            \* keys of the put_object requests issued, in order
  gets,            \* keys of the get_object requests issued, in order
  list_calls,      \* number of list_objects requests issued
  printed          \* keys printed by list_bucket, in order

vars == <<command, src, src_isdir, dest, tree, objects, dirs, files, pc, pool, tasks,
          download_tasks, clients, puts, gets, list_calls, printed>>

inputs == <<command, src, src_isdir, dest, tree, objects>>

Init ==
  /\ command \in commands \cup {"bogus"}
  /\ \/ command = C_UPLOAD /\ src \in SrcPaths /\ tree \in Trees
     \/ command = C_GET /\ src \in GetKeys /\ tree = {}
     \/ command \notin {C_UPLOAD, C_GET} /\ src = <<DOT>> /\ tree = {}
  /\ \/ command = C_UPLOAD /\ tree = {} /\ src_isdir \in BOOLEAN
     \/ (command # C_UPLOAD \/ tree # {}) /\ src_isdir = TRUE
  /\ \/ command = C_GET /\ dest \in DestPaths
     \/ command # C_GET /\ dest = <<DOT>>
  /\ \/ command \in {C_DOWNLOAD, C_LIST} /\ \E ks \in Buckets : objects = listing_from(ks, 1)
     \/ command \notin {C_DOWNLOAD, C_LIST} /\ objects = <<>>
  /\ \/ command \in {C_DOWNLOAD, C_GET} /\ \E d \in DiskStates : dirs = d.ds /\ files = d.fs
     \/ command \notin {C_DOWNLOAD, C_GET} /\ dirs = {} /\ files = {}
  /\ pc = "main"
  /\ pool = <<>>
  /\ tasks = <<>>
  /\ download_tasks = <<>>
  /\ clients = {}
  /\ puts = <<>>
  /\ gets = <<>>
  /\ list_calls = 0
  /\ printed = <<>>

\* ------------------------------------------------------------------------
\* Tasks
\* ------------------------------------------------------------------------
\* A task's st: "created" (scheduled by ensure_future, not yet run), then
\* the call it is suspended in ("put", "get", "read", "list", "wait"), then
\* "ok" (returned) or "failed" (raised, err names the exception)
Task(fn, s, d) == [fn |-> fn, src |-> s, dest |-> d, st |-> "created", err |-> ""]

Terminal == {"ok", "failed"}
InFlight == {"put", "get", "read", "list", "wait"}

\* The task returns or raises: its outcome is stored in the task
finish(p, i, outcome, e) == [p EXCEPT ![i].st = outcome, ![i].err = e]

\* A client that is closed on return only, not when the block raises
async_with_exit_leak(cl, i, outcome) == IF outcome = "ok" THEN cl \ {i} ELSE cl

\* Leaving "async with session.create_client(...) as client", by return or
\* by exception, closes the task's client
async_with_exit(cl, i, outcome) == cl \ {i}

\* [n+1, ..., n+k]
indices(n, k) == [j \in 1..k |-> n + j]

\* ------------------------------------------------------------------------
\* upload: one task per file found by os.walk
\* ------------------------------------------------------------------------
\* Names of the regular files, and of the subdirectories, of directory rel
files_of(rel, t) == SelectSeq(NameOrder, LAMBDA n : Append(rel, n) \in t)
subdirs_of(rel, t) ==
  SelectSeq(NameOrder, LAMBDA n :
    \E f \in t : Len(f) > Len(rel) + 1 /\ SubSeq(f, 1, Len(rel) + 1) = Append(rel, n))

\* os.walk(top): the (path, files) pairs, top-down
RECURSIVE walk(_, _, _)
RECURSIVE walk_each(_, _, _, _)
walk(path, rel, t) ==
  <<[path |-> path, files |-> files_of(rel, t)]>>
    \o walk_each(subdirs_of(rel, t), path, rel, t)
walk_each(ds, path, rel, t) ==
  IF ds = <<>> THEN <<>>
  ELSE walk(join(path, Head(ds)), Append(rel, Head(ds)), t)
         \o walk_each(Tail(ds), path, rel, t)

\* key = path[len(one_level_upper) + 1:]
upload_key(path, one_level_upper) == slice_from(path, Len(one_level_upper) + 1)

\* A loop that appends every task twice
RECURSIVE upload_files_twice(_, _, _)
upload_files_twice(path, key, fls) ==
  IF fls = <<>> THEN <<>>
  ELSE << Task("upload_one_file", join(path, Head(fls)), join(key, Head(fls))),
          Task("upload_one_file", join(path, Head(fls)), join(key, Head(fls))) >>
         \o upload_files_twice(path, key, Tail(fls))

\* A loop that misses the last file of every directory
RECURSIVE upload_files_short(_, _, _)
upload_files_short(path, key, fls) ==
  IF Len(fls) <= 1 THEN <<>>
  ELSE <<Task("upload_one_file", join(path, Head(fls)), join(key, Head(fls)))>>
         \o upload_files_short(path, key, Tail(fls))

\* The inner loop: one upload_one_file task per file of a directory
RECURSIVE upload_files(_, _, _)
upload_files(path, key, fls) ==
  IF fls = <<>> THEN <<>>
  ELSE <<Task("upload_one_file", join(path, Head(fls)), join(key, Head(fls)))>>
         \o upload_files(path, key, Tail(fls))

\* The outer loop over os.walk(src_full)
RECURSIVE upload_walk(_, _)
upload_walk(entries, one_level_upper) ==
  IF entries = <<>> THEN <<>>
  ELSE upload_files(Head(entries).path,
                    upload_key(Head(entries).path, one_level_upper),
                    Head(entries).files)
         \o upload_walk(Tail(entries), one_level_upper)

\* os.walk(top) yields nothing when top is not a directory
os_walk(top, isdir, t) == IF isdir THEN walk(top, <<>>, t) ELSE <<>>

\* upload goes on after printing "... is not a directory"
upload_tasks(s, isdir, t) ==
  LET src_full == abspath(s)
      one_level_upper == abspath(join(src_full, <<DOT, DOT, SEP>>))
  IN  upload_walk(os_walk(src_full, isdir, t), one_level_upper)

\* ------------------------------------------------------------------------
\* download_bucket: directories and one task per listed object
\* ------------------------------------------------------------------------
\* A loop that calls os.mkdir without asking os.path.exists first
RECURSIVE make_dirs_unchecked(_, _, _, _)
make_dirs_unchecked(directories, outdir, ds, fs) ==
  IF directories = <<>>
  THEN [ds |-> ds, raised |-> FALSE, outdir |-> outdir]
  ELSE LET od == join(outdir, Head(directories)) IN
       IF mkdir_ok(od, ds, fs)
       THEN make_dirs_unchecked(Tail(directories), od, ds \cup {names(od)}, fs)
       ELSE [ds |-> ds, raised |-> TRUE, outdir |-> od]

\* The loop "for directory in directories" for one object
RECURSIVE make_dirs(_, _, _, _)
make_dirs(directories, outdir, ds, fs) ==
  IF directories = <<>>
  THEN [ds |-> ds, raised |-> FALSE, outdir |-> outdir]
  ELSE LET od == join(outdir, Head(directories)) IN
       IF exists(od, ds, fs)
       THEN make_dirs(Tail(directories), od, ds, fs)
       ELSE IF mkdir_ok(od, ds, fs)
            THEN make_dirs(Tail(directories), od, ds \cup {names(od)}, fs)
            ELSE [ds |-> ds, raised |-> TRUE, outdir |-> od]

\* Directories taken from the key alone, without the bucket's
directories_no_bucket(key) == SubSeq(split(key), 1, Len(split(key)) - 1)

\* directories = [bucket] + key.split("/")[:-1]
directories_of(key) == <<bucket>> \o SubSeq(split(key), 1, Len(split(key)) - 1)

\* The loop "for obj in resp['Contents']": stops at the first os.mkdir
\* that raises; new holds the download_one_file tasks made until then
RECURSIVE derive_all(_, _, _, _)
derive_all(keys, ds, fs, new) ==
  IF keys = <<>>
  THEN [ds |-> ds, raised |-> FALSE, new |-> new]
  ELSE LET key == Head(keys)
           r == make_dirs(directories_of(key), <<>>, ds, fs)
           out_file_name == join(r.outdir, basename(key))
       IN  IF r.raised
           THEN [ds |-> r.ds, raised |-> TRUE, new |-> new]
           ELSE derive_all(Tail(keys), r.ds, fs,
                           Append(new, Task("download_one_file", key, out_file_name)))

\* ------------------------------------------------------------------------
\* main: the command makes the list of tasks, then
\* loop.run_until_complete(asyncio.wait(tasks)); asyncio.wait raises
\* ValueError on an empty list
\* ------------------------------------------------------------------------
\* A main that skips the loop when there is nothing to run
run_loop_skips_empty(new) == IF new = <<>> THEN "done" ELSE "loop"

run_loop(new) == IF new = <<>> THEN "crash" ELSE "loop"

upload ==
  /\ pc = "main"
  /\ command = C_UPLOAD
  /\ LET new == upload_tasks(src, src_isdir, tree) IN
       /\ pool' = new
       /\ tasks' = indices(0, Len(new))
       /\ pc' = run_loop(new)
  /\ UNCHANGED <<inputs, dirs, files, download_tasks, clients, puts, gets,
                 list_calls, printed>>

download ==
  /\ pc = "main"
  /\ command = C_DOWNLOAD
  /\ pool' = <<Task("download_bucket", <<>>, <<>>)>>
  /\ tasks' = <<1>>
  /\ pc' = "loop"
  /\ UNCHANGED <<inputs, dirs, files, download_tasks, clients, puts, gets,
                 list_calls, printed>>

\* A get that does not look at the destination
get_unchecked ==
  /\ pc = "main"
  /\ command = C_GET
  /\ pool' = <<Task("download_one_file", src, join(dest, basename(src)))>>
  /\ tasks' = <<1>>
  /\ pc' = "loop"
  /\ UNCHANGED <<inputs, dirs, files, download_tasks, clients, puts, gets,
                 list_calls, printed>>

\* A get that keeps the directories of the key below the destination
get_keeps_key_dirs ==
  /\ pc = "main"
  /\ command = C_GET
  /\ IF ~isdir_in(dest, dirs)
     THEN /\ pc' = "exit"
          /\ UNCHANGED <<pool, tasks>>
     ELSE /\ pool' = <<Task("download_one_file", src, join(dest, src))>>
          /\ tasks' = <<1>>
          /\ pc' = "loop"
  /\ UNCHANGED <<inputs, dirs, files, download_tasks, clients, puts, gets,
                 list_calls, printed>>

get ==
  /\ pc = "main"
  /\ command = C_GET
  /\ IF ~isdir_in(dest, dirs)
     THEN /\ pc' = "exit"
          /\ UNCHANGED <<pool, tasks>>
     ELSE /\ pool' = <<Task("download_one_file", src, join(dest, basename(src)))>>
          /\ tasks' = <<1>>
          /\ pc' = "loop"
  /\ UNCHANGED <<inputs, dirs, files, download_tasks, clients, puts, gets,
                 list_calls, printed>>

lst ==
  /\ pc = "main"
  /\ command = C_LIST
  /\ pool' = <<Task("list_bucket", <<>>, <<>>)>>
  /\ tasks' = <<1>>
  /\ pc' = "loop"
  /\ UNCHANGED <<inputs, dirs, files, download_tasks, clients, puts, gets,
                 list_calls, printed>>

\* A main that takes an unknown command for the default one, list
unknown_command_lists ==
  /\ pc = "main"
  /\ command \notin commands
  /\ pool' = <<Task("list_bucket", <<>>, <<>>)>>
  /\ tasks' = <<1>>
  /\ pc' = "loop"
  /\ UNCHANGED <<inputs, dirs, files, download_tasks, clients, puts, gets,
                 list_calls, printed>>

unknown_command ==
  /\ pc = "main"
  /\ command \notin commands
  /\ pc' = "exit"
  /\ UNCHANGED <<inputs, dirs, files, pool, tasks, download_tasks, clients,
                 puts, gets, list_calls, printed>>

\* ------------------------------------------------------------------------
\* The event loop. Its ready queue is first-in first-out: a task made by
\* ensure_future runs its first step, in creation order, before any
\* callback queued later (a response, the end of a wait) is run
\* ------------------------------------------------------------------------
created == { i \in 1..Len(pool) : pool[i].st = "created" }

next_ready(i) ==
  /\ pc = "loop"
  /\ i \in created
  /\ \A j \in created : i <= j

\* A loop that runs a callback before the first step of a task made earlier
resumes_unordered(i, st) ==
  /\ pc = "loop"
  /\ i \in 1..Len(pool)
  /\ pool[i].st = st

resumes(i, st) ==
  /\ pc = "loop"
  /\ created = {}
  /\ i \in 1..Len(pool)
  /\ pool[i].st = st

\* sys.exit(...) inside a task: SystemExit leaves the async with block and
\* the task, and is re-raised out of loop.run_until_complete
sys_exit(i) ==
  /\ pool' = finish(pool, i, "failed", "SystemExit")
  /\ clients' = async_with_exit(clients, i, "failed")
  /\ pc' = "exit"

\* upload_one_file, up to "await client.put_object(...)": open(src, "rb")
\* is evaluated first and may raise
upload_one_file(i) ==
  /\ next_ready(i)
  /\ pool[i].fn = "upload_one_file"
  /\ \/ /\ pool' = [pool EXCEPT ![i].st = "put"]
        /\ clients' = clients \cup {i}
        /\ puts' = Append(puts, pool[i].dest)
     \/ /\ pool' = finish(pool, i, "failed", "OSError")
        /\ clients' = async_with_exit(clients \cup {i}, i, "failed")
        /\ UNCHANGED puts
  /\ UNCHANGED <<inputs, dirs, files, pc, tasks, download_tasks, gets,
                 list_calls, printed>>

\* An upload that ends the process when put_object raises
put_object_returns_aborts(i) ==
  /\ resumes(i, "put")
  /\ \E outcome \in Terminal :
       /\ pool' = finish(pool, i, outcome,
                         IF outcome = "ok" THEN "" ELSE "ClientError")
       /\ clients' = async_with_exit(clients, i, outcome)
       /\ pc' = IF outcome = "ok" THEN pc ELSE "exit"
  /\ UNCHANGED <<inputs, dirs, files, tasks, download_tasks, puts, gets,
                 list_calls, printed>>

\* An upload that sends the request again when put_object raises
put_object_returns_retries(i) ==
  /\ resumes(i, "put")
  /\ \/ /\ pool' = finish(pool, i, "ok", "")
        /\ clients' = async_with_exit(clients, i, "ok")
        /\ UNCHANGED puts
     \/ /\ Len(puts) < 2 * Len(pool)
        /\ puts' = Append(puts, pool[i].dest)
        /\ UNCHANGED <<pool, clients>>
  /\ UNCHANGED <<inputs, dirs, files, pc, tasks, download_tasks, gets,
                 list_calls, printed>>

\* put_object returns (the task prints and returns) or raises
put_object_returns(i) ==
  /\ resumes(i, "put")
  /\ \E outcome \in Terminal :
       /\ pool' = finish(pool, i, outcome,
                         IF outcome = "ok" THEN "" ELSE "ClientError")
       /\ clients' = async_with_exit(clients, i, outcome)
  /\ UNCHANGED <<inputs, dirs, files, pc, tasks, download_tasks, puts, gets,
                 list_calls, printed>>

\* download_one_file, up to "await client.get_object(...)"
download_one_file(i) ==
  /\ next_ready(i)
  /\ pool[i].fn = "download_one_file"
  /\ pool' = [pool EXCEPT ![i].st = "get"]
  /\ clients' = clients \cup {i}
  /\ gets' = Append(gets, pool[i].src)
  /\ UNCHANGED <<inputs, dirs, files, pc, tasks, download_tasks, puts,
                 list_calls, printed>>

\* get_object returns a response, raises ClientError (caught: sys.exit),
\* or raises another exception
get_object_returns(i) ==
  /\ resumes(i, "get")
  /\ \/ /\ pool' = [pool EXCEPT ![i].st = "read"]
        /\ UNCHANGED <<clients, pc>>
     \/ sys_exit(i)
     \/ /\ pool' = finish(pool, i, "failed", "BotoCoreError")
        /\ clients' = async_with_exit(clients, i, "failed")
        /\ UNCHANGED pc
  /\ UNCHANGED <<inputs, dirs, files, tasks, download_tasks, puts, gets,
                 list_calls, printed>>

\* stream.read() returns or raises; then open(dest, "wb") and write
stream_read_returns(i) ==
  /\ resumes(i, "read")
  /\ \/ /\ open_wb_ok(pool[i].dest, dirs)
        /\ files' = files \cup {names(pool[i].dest)}
        /\ pool' = finish(pool, i, "ok", "")
        /\ clients' = async_with_exit(clients, i, "ok")
     \/ /\ ~open_wb_ok(pool[i].dest, dirs)
        /\ pool' = finish(pool, i, "failed", "OSError")
        /\ clients' = async_with_exit(clients, i, "failed")
        /\ UNCHANGED files
     \/ /\ pool' = finish(pool, i, "failed", "ClientPayloadError")
        /\ clients' = async_with_exit(clients, i, "failed")
        /\ UNCHANGED files
  /\ UNCHANGED <<inputs, dirs, pc, tasks, download_tasks, puts, gets,
                 list_calls, printed>>

\* list_bucket, up to "await client.list_objects(...)"
list_bucket(i) ==
  /\ next_ready(i)
  /\ pool[i].fn = "list_bucket"
  /\ pool' = [pool EXCEPT ![i].st = "list"]
  /\ clients' = clients \cup {i}
  /\ list_calls' = list_calls + 1
  /\ UNCHANGED <<inputs, dirs, files, pc, tasks, download_tasks, puts, gets,
                 printed>>

\* list_objects returns one response: the first page of the bucket, with
\* no "Contents" entry when the bucket is empty (KeyError)
list_bucket_resumes(i) ==
  /\ resumes(i, "list")
  /\ pool[i].fn = "list_bucket"
  /\ \/ /\ first_page(objects) # <<>>
        /\ printed' = first_page(objects)
        /\ pool' = finish(pool, i, "ok", "")
        /\ clients' = async_with_exit(clients, i, "ok")
        /\ UNCHANGED pc
     \/ /\ first_page(objects) = <<>>
        /\ pool' = finish(pool, i, "failed", "KeyError")
        /\ clients' = async_with_exit(clients, i, "failed")
        /\ UNCHANGED <<printed, pc>>
     \/ /\ sys_exit(i)
        /\ UNCHANGED printed
     \/ /\ pool' = finish(pool, i, "failed", "BotoCoreError")
        /\ clients' = async_with_exit(clients, i, "failed")
        /\ UNCHANGED <<printed, pc>>
  /\ UNCHANGED <<inputs, dirs, files, tasks, download_tasks, puts, gets,
                 list_calls>>

\* download_bucket, up to "await client.list_objects(...)"
download_bucket(i) ==
  /\ next_ready(i)
  /\ pool[i].fn = "download_bucket"
  /\ pool' = [pool EXCEPT ![i].st = "list"]
  /\ clients' = clients \cup {i}
  /\ list_calls' = list_calls + 1
  /\ UNCHANGED <<inputs, dirs, files, pc, tasks, download_tasks, puts, gets,
                 printed>>

\* list_objects returns: for every object of the response the directories
\* are made and a download_one_file task is created, with no await in
\* between; then the task awaits asyncio.wait(download_tasks)
download_bucket_resumes(i) ==
  /\ resumes(i, "list")
  /\ pool[i].fn = "download_bucket"
  /\ \/ /\ first_page(objects) # <<>>
        /\ LET r == derive_all(first_page(objects), dirs, files, <<>>) IN
             /\ dirs' = r.ds
             /\ download_tasks' = indices(Len(pool), Len(r.new))
             /\ IF r.raised
                THEN /\ pool' = finish(pool, i, "failed", "OSError") \o r.new
                     /\ clients' = async_with_exit(clients, i, "failed")
                ELSE /\ pool' = [pool EXCEPT ![i].st = "wait"] \o r.new
                     /\ UNCHANGED clients
        /\ UNCHANGED pc
     \/ /\ first_page(objects) = <<>>
        /\ pool' = finish(pool, i, "failed", "KeyError")
        /\ clients' = async_with_exit(clients, i, "failed")
        /\ UNCHANGED <<dirs, download_tasks, pc>>
     \/ /\ sys_exit(i)
        /\ UNCHANGED <<dirs, download_tasks>>
     \/ /\ pool' = finish(pool, i, "failed", "BotoCoreError")
        /\ clients' = async_with_exit(clients, i, "failed")
        /\ UNCHANGED <<dirs, download_tasks, pc>>
  /\ UNCHANGED <<inputs, files, tasks, puts, gets, list_calls, printed>>

\* A wait that returns at the first task done (return_when=FIRST_COMPLETED)
first_done(ts) == \E k \in 1..Len(ts) : pool[ts[k]].st \in Terminal

all_done(ts) == \A k \in 1..Len(ts) : pool[ts[k]].st \in Terminal

\* A download_bucket that does not await its download tasks
download_bucket_returns_early(i) ==
  /\ resumes(i, "wait")
  /\ pool' = finish(pool, i, "ok", "")
  /\ clients' = async_with_exit(clients, i, "ok")
  /\ UNCHANGED <<inputs, dirs, files, pc, tasks, download_tasks, puts, gets,
                 list_calls, printed>>

\* asyncio.wait(download_tasks) returns once every task of the list is done
download_bucket_wait_returns(i) ==
  /\ resumes(i, "wait")
  /\ all_done(download_tasks)
  /\ pool' = finish(pool, i, "ok", "")
  /\ clients' = async_with_exit(clients, i, "ok")
  /\ UNCHANGED <<inputs, dirs, files, pc, tasks, download_tasks, puts, gets,
                 list_calls, printed>>

\* asyncio.wait(tasks) returns once every task of main's list is done:
\* run_until_complete returns and main ends
run_until_complete_returns ==
  /\ pc = "loop"
  /\ created = {}
  /\ all_done(tasks)
  /\ pc' = "done"
  /\ UNCHANGED <<inputs, dirs, files, pool, tasks, download_tasks, clients,
                 puts, gets, list_calls, printed>>

Next ==
  \/ upload
  \/ download
  \/ get
  \/ lst
  \/ unknown_command
  \/ \E i \in 1..Len(pool) : upload_one_file(i)
  \/ \E i \in 1..Len(pool) : put_object_returns(i)
  \/ \E i \in 1..Len(pool) : download_one_file(i)
  \/ \E i \in 1..Len(pool) : get_object_returns(i)
  \/ \E i \in 1..Len(pool) : stream_read_returns(i)
  \/ \E i \in 1..Len(pool) : list_bucket(i)
  \/ \E i \in 1..Len(pool) : list_bucket_resumes(i)
  \/ \E i \in 1..Len(pool) : download_bucket(i)
  \/ \E i \in 1..Len(pool) : download_bucket_resumes(i)
  \/ \E i \in 1..Len(pool) : download_bucket_wait_returns(i)
  \/ run_until_complete_returns

Spec == Init /\ [][Next]_vars

\* The event loop keeps running what is ready: the first step of a task,
\* the callback of a response that has arrived, the end of a wait
loop_runs ==
  \/ \E i \in 1..Len(pool) : upload_one_file(i)
  \/ \E i \in 1..Len(pool) : put_object_returns(i)
  \/ \E i \in 1..Len(pool) : download_one_file(i)
  \/ \E i \in 1..Len(pool) : get_object_returns(i)
  \/ \E i \in 1..Len(pool) : stream_read_returns(i)
  \/ \E i \in 1..Len(pool) : list_bucket(i)
  \/ \E i \in 1..Len(pool) : list_bucket_resumes(i)
  \/ \E i \in 1..Len(pool) : download_bucket(i)
  \/ \E i \in 1..Len(pool) : download_bucket_wait_returns(i)
  \/ run_until_complete_returns

FairSpec == Spec /\ WF_vars(loop_runs)

\* ------------------------------------------------------------------------
\* Properties
\* ------------------------------------------------------------------------
\* The transfers of a run, those started, those neither done nor unstarted
transfers ==
  { i \in 1..Len(pool) : pool[i].fn \in {"upload_one_file", "download_one_file"} }
started(i) == pool[i].st # "created"
outstanding == { i \in transfers : pool[i].st \in InFlight }

\* The runs that feed many work items: upload and whole-bucket download
batch_run == command \in {C_UPLOAD, C_DOWNLOAD}

\* W: the files found by the walk, or the objects listed
work_items ==
  IF command = C_UPLOAD THEN Cardinality(tree) ELSE Len(first_page(objects))

\* The work items have all been turned into tasks
launch_complete ==
  \/ command = C_UPLOAD /\ pc # "main"
  \/ command = C_DOWNLOAD /\ Len(pool) > 0 /\ pool[1].st \in {"wait", "ok"}

every_item_has_outcome ==
  /\ Cardinality(transfers) = work_items
  /\ \A i \in transfers : pool[i].st \in Terminal

process_ended == pc \in {"done", "exit", "crash"}

\* C1 (as claimed): in an upload or whole-bucket download run the transfers
\* started and not yet ended never outnumber the configured concurrency,
\* whatever concurrency is configured
C1_OutstandingWithinConcurrency ==
  batch_run => \A c \in 1..MaxConcurrency : Cardinality(outstanding) <= c

\* C1 (amended): the transfers started and not yet ended never outnumber
\* the work items of the run; nothing else limits them
C1_OutstandingWithinWorkItems ==
  batch_run => Cardinality(outstanding) <= work_items

\* C1 witness: every work item of a run of several is outstanding at once
C1_AllOutstanding ==
  /\ batch_run
  /\ work_items > 1
  /\ Cardinality(outstanding) = work_items

\* Position of a transfer among the transfers, and its wave under limit c
position(i) == Cardinality({ j \in transfers : j <= i })
wave(i, c) == (position(i) - 1) \div c

\* C2 (as claimed): no transfer of a later wave is started before every
\* transfer of an earlier wave has ended, whatever the wave size
C2_WaveBarrier ==
  batch_run =>
    \A c \in 1..MaxConcurrency : \A i \in transfers, j \in transfers :
      wave(i, c) < wave(j, c) /\ started(j) => pool[i].st \in Terminal

\* The storage has answered transfer j and the answer has been handled
responded(j) ==
  IF pool[j].fn = "upload_one_file"
  THEN pool[j].st = "ok" \/ (pool[j].st = "failed" /\ pool[j].err # "OSError")
  ELSE pool[j].st \in {"read", "ok", "failed"}

\* C2 (amended): the transfers of a run form one wave: they are started in
\* the order of admission, and none is started after the storage's answer
\* to another transfer has been handled
C2_SingleWave ==
  batch_run =>
    \A i \in transfers, j \in transfers :
      /\ i < j /\ started(j) => started(i)
      /\ pool[i].st = "created" => ~responded(j)

\* C2 witness: a later transfer is in flight while the first still is
C2_LaterStartedWhileFirstInFlight ==
  /\ batch_run
  /\ \E j \in transfers :
       /\ position(j) > 1
       /\ pool[j].st \in InFlight
       /\ \E i \in transfers : position(i) = 1 /\ pool[i].st \in InFlight

\* The waves of a run: the non-empty lists of transfers handed to one
\* asyncio.wait
wait_lists == IF command = C_UPLOAD THEN <<tasks>> ELSE <<download_tasks>>
waves == SelectSeq(wait_lists, LAMBDA l : l # <<>>)
ceil_div(w, c) == (w + c - 1) \div c

\* C3 (as claimed): W transfers are launched in ceil(W / C) waves, all but
\* the last of exactly C transfers, for every C
C3_CeilWaves ==
  batch_run /\ launch_complete =>
    \A c \in 1..MaxConcurrency :
      /\ Len(waves) = ceil_div(work_items, c)
      /\ \A k \in 1..(Len(waves) - 1) : Len(waves[k]) = c

\* C3 (amended): W >= 1 transfers are launched in exactly one wave, which
\* holds all W of them
C3_OneWave ==
  batch_run /\ launch_complete =>
    /\ Len(waves) = (IF work_items = 0 THEN 0 ELSE 1)
    /\ work_items > 0 =>
         /\ Len(waves[1]) = work_items
         /\ { waves[1][k] : k \in 1..Len(waves[1]) } = transfers

\* C3 witness: a run of several work items has launched its only wave
C3_SeveralItemsOneWave ==
  /\ batch_run
  /\ launch_complete
  /\ work_items >= 2
  /\ Len(waves) = 1
  /\ pc = "done"

\* C4 (as claimed): when the process has ended, every work item that was
\* turned into a transfer has its terminal outcome, also when another
\* item has failed
C4_EveryItemHasOutcome ==
  batch_run /\ launch_complete /\ process_ended => every_item_has_outcome

\* C4 (amended): an outcome, once reached, never changes; every file of an
\* upload run reaches its outcome and the run ends, whatever fails; every
\* listed object of a bucket download has its outcome when download_bucket
\* has returned, which a sys.exit in a transfer or a raising os.mkdir
\* prevents
C4_OutcomesUnlessAborted ==
  /\ [](command = C_UPLOAD /\ pc = "done" => every_item_has_outcome)
  /\ [](command = C_DOWNLOAD /\ pc = "done" /\ pool[1].st = "ok"
          => every_item_has_outcome)
  /\ [][\A i \in 1..Len(pool) :
          pool[i].st \in Terminal => pool'[i] = pool[i]]_vars
  /\ (command = C_UPLOAD /\ pc = "loop") ~> (pc = "done")

\* C4 witness: an upload run has ended with one transfer failed and
\* another succeeded
C4_UploadEndedWithFailure ==
  /\ command = C_UPLOAD
  /\ pc = "done"
  /\ \E i \in transfers : pool[i].st = "failed"
  /\ \E i \in transfers : pool[i].st = "ok"

yielded ==
  IF command = C_LIST THEN printed
  ELSE [k \in 1..Len(download_tasks) |-> pool[download_tasks[k]].src]

listing_done ==
  /\ Len(pool) > 0
  /\ \/ command = C_LIST /\ pool[1].st = "ok"
     \/ command = C_DOWNLOAD /\ pool[1].st \in {"wait", "ok"}

\* C6 (as claimed): a listing pass over a bucket of P pages yields every
\* object of the bucket once, in P page fetches
C6_ListingYieldsEveryPage ==
  listing_done =>
    /\ yielded = objects
    /\ list_calls = page_count(objects)

\* The key the claim expects for file f of the tree uploaded from s: the
\* name of the root directory, then the names leading to the file
expected_key(s, f) ==
  LET comps == normcomps(split(s), <<>>)
      root == IF comps = <<>> THEN <<>> ELSE <<comps[Len(comps)]>>
  IN  join_sep(root \o f)

\* C7 (as claimed): an upload whose transfers all succeed has issued one
\* put per file of the tree and no other, each under the file's path
\* relative to the parent of the root directory
C7_PutsMirrorTree ==
  /\ command = C_UPLOAD
  /\ pc = "done"
  /\ \A i \in transfers : pool[i].st = "ok"
  => /\ Len(puts) = Cardinality(tree)
     /\ { puts[k] : k \in 1..Len(puts) } = { expected_key(src, f) : f \in tree }

\* C8 (as claimed): two files of the uploaded tree never get the same key
C8_KeysPairwiseDistinct ==
  command = C_UPLOAD =>
    \A i \in transfers, j \in transfers :
      pool[i].src # pool[j].src => pool[i].dest # pool[j].dest

\* The directories above the file or directory r
ancestors(r) == { SubSeq(r, 1, k) : k \in 1..(Len(r) - 1) }

key_dirs(key) ==
  { names(join_sep(SubSeq(directories_of(key), 1, k))) :
      k \in 1..Len(directories_of(key)) }

\* A regular file is where the derivation of the key needs a directory
blocked(key) == key_dirs(key) \cap files # {}

\* The segments of the key before the last that are not empty
named_segments(key) ==
  SelectSeq(SubSeq(split(key), 1, Len(split(key)) - 1), LAMBDA c : c # <<>>)

listed == { first_page(objects)[k] : k \in 1..Len(first_page(objects)) }

derivation_raised ==
  /\ command = C_DOWNLOAD
  /\ Len(pool) > 0
  /\ pool[1].st = "failed"
  /\ pool[1].err = "OSError"

\* Deriving the path of the key again raises nothing and makes nothing
rederived_unchanged(key) ==
  LET r == make_dirs(directories_of(key), <<>>, dirs, files)
  IN  ~r.raised /\ r.ds = dirs

nothing_launched ==
  /\ pool = <<>>
  /\ puts = <<>>
  /\ gets = <<>>
  /\ list_calls = 0

\* --dest names no directory of the disk
dest_missing == names(dest) # <<>> /\ names(dest) \notin dirs

\* C11: a get whose destination is not an existing directory ends with
\* sys.exit, sends no request to the storage, makes no task and leaves the
\* disk as it is
C11_GetBadDestNoCall ==
  /\ [](command = C_GET /\ dest_missing =>
          /\ pc \in {"main", "exit"}
          /\ nothing_launched)
  /\ [][command = C_GET /\ dest_missing =>
          files' = files /\ dirs' = dirs]_vars

\* C11 witness: a get with a regular file, or nothing, at the destination
\* has exited
C11_GetBadDestExited ==
  /\ command = C_GET
  /\ dest_missing
  /\ pc = "exit"

\* C12 (as claimed): the process ends with status zero only if every
\* transfer of the run has succeeded
C12_ZeroOnlyIfAllSucceeded ==
  pc = "done" => \A i \in transfers : pool[i].st = "ok"

\* C13 (as claimed): when a transfer has failed, the process does not end
\* before every other transfer of the run has its outcome
C13_FailureDoesNotAbort ==
  /\ batch_run
  /\ launch_complete
  /\ \E i \in transfers : pool[i].st = "failed"
  /\ process_ended
  => \A j \in transfers : pool[j].st \in Terminal

\* Transfer i fails in this step
fails_now(i) == pool[i].st # "failed" /\ pool'[i].st = "failed"

\* C13 (amended): a transfer that fails with anything but the SystemExit
\* of sys.exit leaves the process running and every other task as it was,
\* and the other transfers go on to their outcomes; the process is ended
\* before that only by a sys.exit
C13_OnlySysExitAborts ==
  /\ [][\A i \in transfers :
          fails_now(i) /\ pool'[i].err # "SystemExit" =>
            /\ pc' = pc
            /\ \A j \in 1..Len(pool) : j # i => pool'[j] = pool[j]]_vars
  /\ [](pc = "exit" /\ batch_run =>
          \E i \in 1..Len(pool) : pool[i].err = "SystemExit")
  /\ (batch_run /\ launch_complete)
       ~> (pc = "exit" \/ \A j \in transfers : pool[j].st \in Terminal)

\* C13 witness: a bucket download has ended normally with one transfer
\* failed and another succeeded
C13_DownloadEndedWithFailure ==
  /\ command = C_DOWNLOAD
  /\ pc = "done"
  /\ \E i \in transfers : pool[i].st = "failed"
  /\ \E i \in transfers : pool[i].st = "ok"

\* C14: an unknown command ends with sys.exit; no task is made, no request
\* is sent and the disk is left as it is
C14_UnknownCommandNoTask ==
  /\ [](command \notin commands =>
          /\ pc \in {"main", "exit"}
          /\ nothing_launched
          /\ printed = <<>>)
  /\ [][command \notin commands => files' = files /\ dirs' = dirs]_vars

\* C14 witness: a run with an unknown command has exited
C14_UnknownCommandExited ==
  /\ command \notin commands
  /\ pc = "exit"

\* The transfers whose request has been sent
put_sent ==
  { i \in transfers :
      /\ pool[i].fn = "upload_one_file"
      /\ \/ pool[i].st \in {"put", "ok"}
         \/ pool[i].st = "failed" /\ pool[i].err = "ClientError" }
get_sent ==
  { i \in transfers : pool[i].fn = "download_one_file" /\ started(i) }
listers ==
  { i \in 1..Len(pool) : pool[i].fn \in {"list_bucket", "download_bucket"} }

\* C15: there are as many put_object requests as uploads that got to their
\* request, as many get_object requests as downloads started, and one
\* list_objects request per listing started, at most one in a run; a
\* failure adds none
C15_OneRequestPerItem ==
  /\ Len(puts) = Cardinality(put_sent)
  /\ Len(gets) = Cardinality(get_sent)
  /\ list_calls = Cardinality({ i \in listers : started(i) })
  /\ list_calls <= 1

\* C15 witness: an upload of several files has ended, a put_object has
\* failed, and every file has had its one request
C15_FailedPutNotRepeated ==
  /\ command = C_UPLOAD
  /\ pc = "done"
  /\ Cardinality(transfers) >= 2
  /\ \E i \in transfers : pool[i].st = "failed" /\ pool[i].err = "ClientError"
  /\ Len(puts) = Cardinality(transfers)

\* C16 (as claimed): when the process of an upload or bucket download has
\* ended, no transfer is left unstarted or in flight
C16_NoneInFlightAtEnd ==
  batch_run /\ process_ended => \A i \in transfers : pool[i].st \in Terminal

\* C16 (amended): an upload that returns, and a bucket download that
\* returns after download_bucket has returned, leave no transfer unstarted
\* or in flight; a process that ends with one does so by sys.exit or after
\* os.mkdir raised in download_bucket
C16_NoneInFlightUnlessAborted ==
  /\ command = C_UPLOAD /\ pc = "done" => outstanding = {} /\ created = {}
  /\ command = C_DOWNLOAD /\ pc = "done" /\ pool[1].st = "ok" =>
       outstanding = {} /\ created = {}
  /\ batch_run /\ process_ended /\ outstanding # {} =>
       pc = "exit" \/ derivation_raised

\* C16 witness: a bucket download of several objects has returned with
\* every transfer ended
C16_DownloadReturnedAllEnded ==
  /\ command = C_DOWNLOAD
  /\ pc = "done"
  /\ pool[1].st = "ok"
  /\ Cardinality(transfers) >= 2
  /\ outstanding = {}

\* The run has nothing to transfer: an empty directory, an empty bucket
empty_source ==
  \/ command = C_UPLOAD /\ src_isdir /\ tree = {}
  \/ command = C_DOWNLOAD /\ objects = <<>>

storage_failed ==
  \E i \in 1..Len(pool) : pool[i].err \in {"SystemExit", "BotoCoreError"}

\* C17 (as claimed): a run with nothing to transfer, the storage answering,
\* ends with success, without put or get request and without wave
C17_EmptyRunSucceeds ==
  empty_source /\ process_ended /\ ~storage_failed =>
    /\ pc = "done"
    /\ puts = <<>>
    /\ gets = <<>>
    /\ waves = <<>>

\* --dest names a directory of the disk
dest_is_dir == names(dest) = <<>> \/ names(dest) \in dirs

\* The last segment of the key, below the destination
get_path == Append(names(dest), split(src)[Len(split(src))])

\* C18: a get into an existing directory makes one task, for the file
\* named by the last segment of the key below the destination; it sends
\* one get_object request, for the key, and none other; nothing but that
\* file is written and no directory is made
C18_GetOneObject ==
  /\ [](command = C_GET /\ dest_is_dir =>
          /\ Len(pool) <= 1
          /\ Len(pool) = 1 => names(pool[1].dest) = get_path
          /\ Len(gets) <= 1
          /\ \A k \in 1..Len(gets) : gets[k] = src
          /\ process_ended => gets = <<src>>
          /\ puts = <<>> /\ list_calls = 0)
  /\ [][command = C_GET =>
          /\ files' \ files \subseteq {get_path}
          /\ dirs' = dirs]_vars

\* C18 witness: the object of a key with a directory has been written
\* right below the destination directory
C18_GetWroteBasename ==
  /\ command = C_GET
  /\ pc = "done"
  /\ pool[1].st = "ok"
  /\ Len(split(src)) > 1
  /\ names(dest) # <<>>
  /\ get_path \in files

\* C19: an upload whose source is not a directory makes no task, sends no
\* put_object request and does not end with success
C19_UploadNotDirectory ==
  command = C_UPLOAD /\ ~src_isdir =>
    /\ pool = <<>>
    /\ puts = <<>>
    /\ pc # "done"

\* C19 witness: an upload whose source is not a directory has ended with
\* the ValueError of asyncio.wait
C19_UploadNotDirectoryCrashed ==
  /\ command = C_UPLOAD
  /\ ~src_isdir
  /\ pc = "crash"

====
